---- MODULE Spec2Model ----
(***************************************************************************)
(* Model of snyk-insights: snyk_insights.py (SnykIssue, read_csv_to_models, *)
(* main) and html_report.py (HTMLReportGenerator).                         *)
(*                                                                         *)
(* A CSV cell of a list-valued column is a sequence of JSON lexemes; a     *)
(* file is the sequence of its lines after the header, each either blank   *)
(* or a data row.  One run of main is one behaviour of Spec.               *)
(***************************************************************************)
EXTENDS Integers, Sequences, FiniteSets, TLC

VARIABLES
    csv_exists,     \* args.csv_file.exists()
    file,           \* the lines of the CSV after the header line
    output_file,    \* args.output_file ("" stands for None)
    group_by,       \* args.group_by
    pc,             \* position of main
    fs,             \* paths created or written by this run
    output_path,    \* main's output_path
    pos,            \* number of file lines consumed by the csv reader
    row_num,        \* enumerate()'s counter for the next yielded row
    issues,         \* read_csv_to_models' issues
    stderr,         \* diagnostics printed to sys.stderr
    exit_code,      \* status of sys.exit, -1 while running
    template_name,  \* generate()'s template_name
    data,           \* prepare_data()'s result
    stdout,         \* progress messages printed to sys.stdout
    cell,           \* input of the list coercion (text of one cell)
    coerced         \* outcome of the list coercion of cell

vars == <<csv_exists, file, output_file, group_by, pc, fs, output_path, pos,
          row_num, issues, stderr, exit_code, template_name, data, stdout, cell,
          coerced>>

mainVars == <<csv_exists, file, output_file, group_by, pc, fs, output_path, pos,
              row_num, issues, stderr, exit_code, template_name, data, stdout>>

-----------------------------------------------------------------------------
(* Bounds of the model *)

MaxRows == 3

MaxCellLen == 4

-----------------------------------------------------------------------------
(* JSON text of a cell: json.dumps / json.loads over lexemes *)

Quote(s) == "\"" \o s \o "\""

\* the strings that occur inside JSON string literals of the model
JsonStrings == {"A", "B", "CVE-1", "CVE-2", "CWE-A", "CWE-B"}

IsStringToken(t) == \E s \in JsonStrings : t = Quote(s)

Unquote(t) == CHOOSE s \in JsonStrings : t = Quote(s)

RECURSIVE JoinItems(_)
JoinItems(l) ==
    IF Len(l) = 0 THEN <<>>
    ELSE IF Len(l) = 1 THEN <<Quote(l[1])>>
    ELSE <<Quote(l[1]), ",">> \o JoinItems(Tail(l))

\* json.dumps of a list of strings, as the export writes it into a cell
json_dumps(l) == <<"[">> \o JoinItems(l) \o <<"]">>

ParseFail == [ok |-> FALSE, next |-> 0]

RECURSIVE ParseValue(_, _)
RECURSIVE ParseElems(_, _, _)
ParseValue(toks, i) ==
    IF i > Len(toks) THEN ParseFail
    ELSE IF IsStringToken(toks[i])
        THEN [ok |-> TRUE, val |-> [t |-> "str", s |-> Unquote(toks[i])], next |-> i + 1]
    ELSE IF toks[i] = "null"
        THEN [ok |-> TRUE, val |-> [t |-> "null"], next |-> i + 1]
    ELSE IF toks[i] = "["
        THEN IF i + 1 <= Len(toks) /\ toks[i + 1] = "]"
             THEN [ok |-> TRUE, val |-> [t |-> "list", items |-> <<>>], next |-> i + 2]
             ELSE ParseElems(toks, i + 1, <<>>)
    ELSE ParseFail

ParseElems(toks, i, acc) ==
    LET r == ParseValue(toks, i) IN
    IF ~r.ok THEN ParseFail
    ELSE IF r.next > Len(toks) THEN ParseFail
    ELSE IF toks[r.next] = "]"
        THEN [ok |-> TRUE, val |-> [t |-> "list", items |-> Append(acc, r.val)],
              next |-> r.next + 1]
    ELSE IF toks[r.next] = ","
        THEN ParseElems(toks, r.next + 1, Append(acc, r.val))
    ELSE ParseFail

\* json.loads: ok = FALSE is json.JSONDecodeError
json_loads(toks) ==
    LET r == ParseValue(toks, 1) IN
    IF r.ok /\ r.next = Len(toks) + 1 THEN [ok |-> TRUE, val |-> r.val]
    ELSE [ok |-> FALSE]

-----------------------------------------------------------------------------
(* SnykIssue: the record model *)

RawStr(text) == [type |-> "str", text |-> text]

\* the value csv.DictReader gives a column the row is too short for
RawNone == [type |-> "none", text |-> <<>>]

EmptyList == [t |-> "list", items |-> <<>>]

\* the "before" validator of cve, cve_url, cwe
parse_json_array(v) ==
    IF v.type = "str"
    THEN LET parsed == json_loads(v.text) IN
         IF parsed.ok
         THEN IF parsed.val.t = "list" THEN parsed.val ELSE EmptyList
         ELSE EmptyList
    ELSE EmptyList

\* the List[str] annotation: every item must be a string
ValidateListOfStr(l) ==
    IF \A i \in DOMAIN l.items : l.items[i].t = "str"
    THEN [ok |-> TRUE, list |-> [i \in DOMAIN l.items |-> l.items[i].s]]
    ELSE [ok |-> FALSE, list |-> <<>>]

\* a list-valued field: before-validator, then the annotation
ListField(v) == ValidateListOfStr(parse_json_array(v))

MicroFormat == {"2024-01-02 03:04:05.000006"}

SecondFormat == {"2024-01-02 03:04:05"}

\* the "before" validator of first_introduced
parse_datetime(v) ==
    IF v = "" THEN [ok |-> TRUE, value |-> "None"]
    ELSE IF v \in MicroFormat THEN [ok |-> TRUE, value |-> v]
    ELSE IF v \in SecondFormat THEN [ok |-> TRUE, value |-> v]
    ELSE [ok |-> FALSE, value |-> "None"]

\* SnykIssue(**row): ok = FALSE is the ValidationError
SnykIssue(row) ==
    LET cve == ListField(row.CVE)
        cwe == ListField(row.CWE)
        fi  == parse_datetime(row.FIRST_INTRODUCED)
    IN  IF row.ISSUE_URL.type = "str" /\ cve.ok /\ cwe.ok /\ fi.ok
        THEN [ok |-> TRUE,
              issue |-> [issue_severity      |-> row.ISSUE_SEVERITY,
                         problem_title       |-> row.PROBLEM_TITLE,
                         cve                 |-> cve.list,
                         cwe                 |-> cwe.list,
                         project_name        |-> row.PROJECT_NAME,
                         project_url         |-> row.PROJECT_URL,
                         computed_fixability |-> row.COMPUTED_FIXABILITY,
                         first_introduced    |-> fi.value]]
        ELSE [ok |-> FALSE]

-----------------------------------------------------------------------------
(* Python's ordering of the strings of the model (code-point order) *)

StrOrder ==
    <<"A", "B", "CVE-1", "CVE-1 + CWE-A", "CVE-1 + CWE-B", "CVE-1 + No CWE",
      "CVE-2", "CVE-2 + CWE-A", "CVE-2 + CWE-B", "CVE-2 + No CWE", "CWE-A",
      "CWE-B", "No CVE", "No CVE + CWE-A", "No CVE + CWE-B", "No CVE + No CWE",
      "No CWE", "RCE", "XSS", "api", "u1", "u2", "web">>

Rank(s) == CHOOSE i \in DOMAIN StrOrder : StrOrder[i] = s

RECURSIVE sorted(_)
\* sorted() of a set of strings
sorted(S) ==
    IF S = {} THEN <<>>
    ELSE LET m == CHOOSE x \in S : \A y \in S : Rank(x) <= Rank(y)
         IN  <<m>> \o sorted(S \ {m})

-----------------------------------------------------------------------------
(* HTMLReportGenerator: aggregation *)

EmptyDict == [x \in {} |-> 0]

\* d[k] += 1 on a defaultdict(int)
Incr(d, k) ==
    [x \in DOMAIN d \cup {k} |->
        IF x = k THEN (IF k \in DOMAIN d THEN d[k] + 1 ELSE 1) ELSE d[x]]

\* d[k] = v on a dict
DictSet(d, k, v) == [x \in DOMAIN d \cup {k} |-> IF x = k THEN v ELSE d[x]]

\* index of key in an insertion-ordered dict, 0 when absent
IndexOfKey(groups, key) ==
    IF \E i \in DOMAIN groups : groups[i].key = key
    THEN CHOOSE i \in DOMAIN groups : groups[i].key = key
    ELSE 0

CveList(issue) == IF Len(issue.cve) > 0 THEN issue.cve ELSE <<"No CVE">>

CweList(issue) == IF Len(issue.cwe) > 0 THEN issue.cwe ELSE <<"No CWE">>

RECURSIVE PairsOf(_, _)
\* the (cve, cwe) keys in the order the nested loops visit them
PairsOf(cves, cwes) ==
    IF Len(cves) = 0 THEN <<>>
    ELSE [j \in DOMAIN cwes |-> <<cves[1], cwes[j]>>] \o PairsOf(Tail(cves), cwes)

\* a comparison that ignores case
IsFixableAnyCase(issue) == issue.computed_fixability \in {"Fixable", "fixable"}

IsFixable(issue) == issue.computed_fixability = "Fixable"

CveCweDefault(key) ==
    [key |-> key, issues |-> <<>>, severity_counts |-> EmptyDict,
     projects |-> EmptyDict, problem_titles |-> {}, fixable_count |-> 0]

\* body of the innermost loop of prepare_data_cve_cwe
CveCweAccumulate(groups, key, issue) ==
    LET i  == IndexOfKey(groups, key)
        g0 == IF i = 0 THEN CveCweDefault(key) ELSE groups[i]
        g1 == [g0 EXCEPT
                 !.issues = Append(@, issue),
                 !.severity_counts = Incr(@, issue.issue_severity),
                 !.projects = DictSet(@, issue.project_name, issue.project_url),
                 !.problem_titles = @ \cup {issue.problem_title},
                 !.fixable_count = IF IsFixable(issue) THEN @ + 1 ELSE @]
    IN  IF i = 0 THEN Append(groups, g1) ELSE [groups EXCEPT ![i] = g1]

RECURSIVE CveCweIssue(_, _, _)
\* the two inner loops for one issue
CveCweIssue(groups, keys, issue) ==
    IF Len(keys) = 0 THEN groups
    ELSE CveCweIssue(CveCweAccumulate(groups, keys[1], issue), Tail(keys), issue)

RECURSIVE CveCweLoop(_, _)
\* the loop over issues
CveCweLoop(groups, iss) ==
    IF Len(iss) = 0 THEN groups
    ELSE CveCweLoop(
            CveCweIssue(groups, PairsOf(CveList(iss[1]), CweList(iss[1])), iss[1]),
            Tail(iss))

\* insert g behind every element that has at least as many issues
InsertDesc(s, g) ==
    LET n == Cardinality({i \in DOMAIN s : Len(s[i].issues) >= Len(g.issues)})
    IN  SubSeq(s, 1, n) \o <<g>> \o SubSeq(s, n + 1, Len(s))

RECURSIVE SortFrom(_, _)
SortFrom(done, rest) ==
    IF Len(rest) = 0 THEN done
    ELSE SortFrom(InsertDesc(done, rest[1]), Tail(rest))

\* insert g in front of every element that has at most as many issues
InsertDescFront(s, g) ==
    LET n == Cardinality({i \in DOMAIN s : Len(s[i].issues) > Len(g.issues)})
    IN  SubSeq(s, 1, n) \o <<g>> \o SubSeq(s, n + 1, Len(s))

RECURSIVE SortFromFront(_, _)
SortFromFront(done, rest) ==
    IF Len(rest) = 0 THEN done
    ELSE SortFromFront(InsertDescFront(done, rest[1]), Tail(rest))

\* an ascending sort that is then reversed: equal counts come out last-seen first
SortAscendingReversed(groups) == SortFromFront(<<>>, groups)

\* sorted(groups.items(), key=lambda x: len(x[1]['issues']), reverse=True)
SortByIssueCount(groups) == SortFrom(<<>>, groups)

\* sorted(data['projects'].items()) as a list of {'name', 'url'}
ProjectList(projects) ==
    LET names == sorted(DOMAIN projects)
    IN  [i \in DOMAIN names |-> [name |-> names[i], url |-> projects[names[i]]]]

CveCweOutput(g) ==
    [cve |-> g.key[1], cwe |-> g.key[2],
     total_issues |-> Len(g.issues),
     fixable_count |-> g.fixable_count,
     severity_counts |-> g.severity_counts,
     problem_titles |-> sorted(g.problem_titles),
     projects |-> ProjectList(g.projects)]

prepare_data_cve_cwe(iss) ==
    LET sorted_groups == SortByIssueCount(CveCweLoop(<<>>, iss))
    IN  [i \in DOMAIN sorted_groups |-> CveCweOutput(sorted_groups[i])]

ProjectDefault(key) ==
    [key |-> key, issues |-> <<>>, severity_counts |-> EmptyDict,
     cve_cwe_pairs |-> {}, problem_titles |-> {}, fixable_count |-> 0]

PairLabel(cve, cwe) == cve \o " + " \o cwe

\* the labels the inner loops of prepare_data_project add for one issue
PairLabels(issue) ==
    {PairLabel(c, w) : c \in {CveList(issue)[i] : i \in DOMAIN CveList(issue)},
                       w \in {CweList(issue)[j] : j \in DOMAIN CweList(issue)}}

\* the accumulation done once per (cve, cwe) pair of the issue
ProjectKeysPerPair(issue) ==
    LET pairs == PairsOf(CveList(issue), CweList(issue))
    IN  [i \in DOMAIN pairs |-> <<issue.project_name, issue.project_url>>]

\* the groups an issue is accumulated into by prepare_data_project
ProjectKeys(issue) == <<<<issue.project_name, issue.project_url>>>>

\* body of the loop of prepare_data_project for one key
ProjectAccumulate(groups, key, issue) ==
    LET i  == IndexOfKey(groups, key)
        g0 == IF i = 0 THEN ProjectDefault(key) ELSE groups[i]
        g1 == [g0 EXCEPT
                 !.issues = Append(@, issue),
                 !.severity_counts = Incr(@, issue.issue_severity),
                 !.problem_titles = @ \cup {issue.problem_title},
                 !.cve_cwe_pairs = @ \cup PairLabels(issue),
                 !.fixable_count = IF IsFixable(issue) THEN @ + 1 ELSE @]
    IN  IF i = 0 THEN Append(groups, g1) ELSE [groups EXCEPT ![i] = g1]

RECURSIVE ProjectIssue(_, _, _)
ProjectIssue(groups, keys, issue) ==
    IF Len(keys) = 0 THEN groups
    ELSE ProjectIssue(ProjectAccumulate(groups, keys[1], issue), Tail(keys), issue)

RECURSIVE ProjectLoop(_, _)
\* the loop over issues
ProjectLoop(groups, iss) ==
    IF Len(iss) = 0 THEN groups
    ELSE ProjectLoop(ProjectIssue(groups, ProjectKeys(iss[1]), iss[1]), Tail(iss))

ProjectOutput(g) ==
    [project_name |-> g.key[1], project_url |-> g.key[2],
     total_issues |-> Len(g.issues),
     fixable_count |-> g.fixable_count,
     severity_counts |-> g.severity_counts,
     problem_titles |-> sorted(g.problem_titles),
     cve_cwe_pairs |-> sorted(g.cve_cwe_pairs)]

prepare_data_project(iss) ==
    LET sorted_groups == SortByIssueCount(ProjectLoop(<<>>, iss))
    IN  [i \in DOMAIN sorted_groups |-> ProjectOutput(sorted_groups[i])]

RECURSIVE SeverityCounts(_, _)
\* the summary loop of prepare_data
SeverityCounts(d, iss) ==
    IF Len(iss) = 0 THEN d
    ELSE SeverityCounts(Incr(d, iss[1].issue_severity), Tail(iss))

RECURSIVE FixableCount(_)
\* sum(1 for i in issues if i.computed_fixability == "Fixable")
FixableCount(iss) ==
    IF Len(iss) = 0 THEN 0
    ELSE (IF IsFixable(iss[1]) THEN 1 ELSE 0) + FixableCount(Tail(iss))

\* the strategy branch of prepare_data
GroupsFor(iss, gb) ==
    IF gb = "project" THEN prepare_data_project(iss) ELSE prepare_data_cve_cwe(iss)

prepare_data(iss, gb) ==
    LET groups == GroupsFor(iss, gb)
    IN  [total_issues |-> Len(iss),
         total_groups |-> Len(groups),
         severity_counts |-> SeverityCounts(EmptyDict, iss),
         fixable_count |-> FixableCount(iss),
         groups |-> groups,
         group_by |-> gb]

\* the template of the default strategy whatever the selector
TemplateCveCweOnly(gb) == "report_cve_cwe.html"

\* the template choice of generate
TemplateFor(gb) ==
    IF gb = "project" THEN "report_project.html" ELSE "report_cve_cwe.html"

-----------------------------------------------------------------------------
(* Inputs: the lines of the CSV file and the command line *)

BaseRow ==
    [blank               |-> FALSE,
     ISSUE_SEVERITY      |-> "high",
     PROBLEM_TITLE       |-> "RCE",
     CVE                 |-> RawStr(json_dumps(<<"CVE-1">>)),
     CWE                 |-> RawStr(json_dumps(<<"CWE-A">>)),
     PROJECT_NAME        |-> "api",
     PROJECT_URL         |-> "u1",
     COMPUTED_FIXABILITY |-> "Fixable",
     FIRST_INTRODUCED    |-> "",
     ISSUE_URL           |-> RawStr(<<"https://issue">>)]

RowSamples ==
    { BaseRow,
      \* two CVEs, another severity, lower-case fixability
      [BaseRow EXCEPT !.CVE = RawStr(json_dumps(<<"CVE-1", "CVE-2">>)),
                      !.ISSUE_SEVERITY = "low",
                      !.COMPUTED_FIXABILITY = "fixable",
                      !.PROBLEM_TITLE = "XSS",
                      !.FIRST_INTRODUCED = "2024-01-02 03:04:05.000006"],
      \* malformed JSON and empty text: no CVE, no CWE
      [BaseRow EXCEPT !.CVE = RawStr(<<"x">>),
                      !.CWE = RawStr(<<>>),
                      !.PROJECT_NAME = "web",
                      !.PROJECT_URL = "u2",
                      !.COMPUTED_FIXABILITY = "Partially Fixable"],
      \* the project name of BaseRow under another URL
      [BaseRow EXCEPT !.PROJECT_URL = "u2",
                      !.ISSUE_SEVERITY = "low",
                      !.FIRST_INTRODUCED = "2024-01-02 03:04:05"],
      \* a CVE listed twice, two CWEs
      [BaseRow EXCEPT !.CVE = RawStr(json_dumps(<<"CVE-1", "CVE-1">>)),
                      !.CWE = RawStr(json_dumps(<<"CWE-A", "CWE-B">>)),
                      !.PROJECT_NAME = "web",
                      !.PROJECT_URL = "u1"],
      \* a JSON array whose item is not a string
      [BaseRow EXCEPT !.CVE = RawStr(<<"[", "null", "]">>)],
      \* a row too short to have the ISSUE_URL column, with a bad timestamp
      [BaseRow EXCEPT !.ISSUE_URL = RawNone,
                      !.FIRST_INTRODUCED = "yesterday"],
      \* JSON of the wrong shape (a string, not an array) in the CWE cell
      [BaseRow EXCEPT !.CVE = RawStr(json_dumps(<<"CVE-2">>)),
                      !.CWE = RawStr(<<Quote("CWE-A")>>),
                      !.PROJECT_NAME = "web",
                      !.PROJECT_URL = "u2",
                      !.ISSUE_SEVERITY = "medium",
                      !.PROBLEM_TITLE = "XSS"],
      \* an empty line
      [BaseRow EXCEPT !.blank = TRUE] }

Files == UNION {[1..n -> RowSamples] : n \in 0..MaxRows}

OutputFiles == {"", "custom/report.html"}

GroupByChoices == {"cve-cwe", "project"}

NoData ==
    [total_issues |-> 0, total_groups |-> 0, severity_counts |-> EmptyDict,
     fixable_count |-> 0, groups |-> <<>>, group_by |-> ""]

NoCoercion == [done |-> FALSE, ok |-> FALSE, list |-> <<>>]

Init ==
    /\ csv_exists \in BOOLEAN
    /\ file \in (IF csv_exists THEN Files ELSE {<<>>})
    /\ output_file \in OutputFiles
    /\ group_by \in GroupByChoices
    /\ pc = "start"
    /\ fs = {}
    /\ output_path = ""
    /\ pos = 0
    /\ row_num = 0
    /\ issues = <<>>
    /\ stderr = <<>>
    /\ stdout = <<>>
    /\ exit_code = -1
    /\ template_name = ""
    /\ data = NoData
    /\ cell = RawNone
    /\ coerced = NoCoercion

-----------------------------------------------------------------------------
(* main *)

\* the existence check made after the output directory is created
CheckFileExistsLate ==
    /\ pc = "start"
    /\ fs' = fs \cup {IF output_file = "" THEN "output" ELSE "custom"}
    /\ IF csv_exists
       THEN /\ pc' = "output"
            /\ UNCHANGED <<stderr, exit_code>>
       ELSE /\ stderr' = Append(stderr, [kind |-> "not_found", row_num |-> 0])
            /\ exit_code' = 1
            /\ pc' = "exit"
    /\ UNCHANGED <<csv_exists, file, output_file, group_by, output_path, pos,
                   row_num, issues, template_name, data, stdout, cell, coerced>>

\* "Validate file exists"
CheckFileExists ==
    /\ pc = "start"
    /\ IF csv_exists
       THEN /\ pc' = "output"
            /\ UNCHANGED <<stderr, exit_code>>
       ELSE /\ stderr' = Append(stderr, [kind |-> "not_found", row_num |-> 0])
            /\ exit_code' = 1
            /\ pc' = "exit"
    /\ UNCHANGED <<csv_exists, file, output_file, group_by, fs, output_path, pos,
                   row_num, issues, template_name, data, stdout, cell, coerced>>

\* the default output path of a strategy
DefaultOutputPath(gb) ==
    IF gb = "project" THEN "output/report_project.html"
    ELSE "output/report_cve_cwe.html"

\* "Determine output path"
DetermineOutputPath ==
    /\ pc = "output"
    /\ IF output_file = ""
       THEN /\ fs' = fs \cup {"output"}
            /\ output_path' = DefaultOutputPath(group_by)
       ELSE /\ output_path' = output_file
            /\ fs' = fs \cup {"custom"}
    /\ pc' = "read"
    /\ UNCHANGED <<csv_exists, file, output_file, group_by, pos, row_num, issues,
                   stderr, exit_code, template_name, data, stdout, cell, coerced>>

-----------------------------------------------------------------------------
(* read_csv_to_models *)

\* the call, open() and the construction of the reader
OpenCsv ==
    /\ pc = "read"
    /\ stdout' = Append(stdout, "Reading CSV file")
    /\ issues' = <<>>
    /\ pos' = 0
    /\ row_num' = 2
    /\ pc' = "loop"
    /\ UNCHANGED <<csv_exists, file, output_file, group_by, fs, output_path,
                   stderr, exit_code, template_name, data, cell, coerced>>

\* csv.DictReader.__next__ never returns an empty line: the lines it can yield
RowsAhead == {j \in DOMAIN file : j > pos /\ ~file[j].blank}

\* ReadRow with the loop left at the first failing row
ReadRowAbort ==
    /\ pc = "loop"
    /\ RowsAhead # {}
    /\ LET j == CHOOSE k \in RowsAhead : \A m \in RowsAhead : k <= m
           r == SnykIssue(file[j])
       IN  /\ row_num' = row_num + 1
           /\ IF r.ok
              THEN /\ issues' = Append(issues, r.issue)
                   /\ pos' = j
                   /\ UNCHANGED stderr
              ELSE /\ stderr' = Append(stderr, [kind |-> "row", row_num |-> row_num])
                   /\ pos' = Len(file)
                   /\ UNCHANGED issues
    /\ UNCHANGED <<csv_exists, file, output_file, group_by, pc, fs, output_path,
                   exit_code, template_name, data, stdout, cell, coerced>>

\* one iteration of the loop over the reader
ReadRow ==
    /\ pc = "loop"
    /\ RowsAhead # {}
    /\ LET j == CHOOSE k \in RowsAhead : \A m \in RowsAhead : k <= m
           r == SnykIssue(file[j])
       IN  /\ pos' = j
           /\ row_num' = row_num + 1
           /\ IF r.ok
              THEN /\ issues' = Append(issues, r.issue)
                   /\ UNCHANGED stderr
              ELSE /\ stderr' = Append(stderr, [kind |-> "row", row_num |-> row_num])
                   /\ UNCHANGED issues
    /\ UNCHANGED <<csv_exists, file, output_file, group_by, pc, fs, output_path,
                   exit_code, template_name, data, stdout, cell, coerced>>

\* the reader is exhausted: return issues
ReadEnd ==
    /\ pc = "loop"
    /\ RowsAhead = {}
    /\ pos' = Len(file)
    /\ stdout' = Append(stdout, "Successfully parsed")
    /\ pc' = "generate"
    /\ UNCHANGED <<csv_exists, file, output_file, group_by, fs, output_path,
                   row_num, issues, stderr, exit_code, template_name, data, cell,
                   coerced>>

-----------------------------------------------------------------------------
(* generate_html_report / HTMLReportGenerator.generate *)

Generate ==
    /\ pc = "generate"
    /\ template_name' = TemplateFor(group_by)
    /\ data' = prepare_data(issues, group_by)
    /\ fs' = fs \cup {output_path}
    /\ stdout' = Append(stdout, "HTML report generated")
    /\ exit_code' = 0
    /\ pc' = "done"
    /\ UNCHANGED <<csv_exists, file, output_file, group_by, output_path, pos,
                   row_num, issues, stderr, cell, coerced>>

Next ==
    \/ CheckFileExists
    \/ DetermineOutputPath
    \/ OpenCsv
    \/ ReadRow
    \/ ReadEnd
    \/ Generate

Spec == Init /\ [][Next]_vars

-----------------------------------------------------------------------------
(* The list coercion on its own: every cell text up to MaxCellLen lexemes *)

CellAlphabet == {"[", "]", ",", Quote("A"), Quote("B"), "null", "x"}

CellTexts == UNION {[1..n -> CellAlphabet] : n \in 0..MaxCellLen}

InitCoerce ==
    /\ cell \in {RawStr(t) : t \in CellTexts} \cup {RawNone}
    /\ coerced = NoCoercion
    /\ csv_exists = FALSE
    /\ file = <<>>
    /\ output_file = ""
    /\ group_by = "cve-cwe"
    /\ pc = "field"
    /\ fs = {}
    /\ output_path = ""
    /\ pos = 0
    /\ row_num = 0
    /\ issues = <<>>
    /\ stderr = <<>>
    /\ stdout = <<>>
    /\ exit_code = -1
    /\ template_name = ""
    /\ data = NoData

\* pydantic validates one list-valued field
CoerceCell ==
    /\ pc = "field"
    /\ ~coerced.done
    /\ LET r == ListField(cell)
       IN  coerced' = [done |-> TRUE, ok |-> r.ok, list |-> r.list]
    /\ UNCHANGED <<mainVars, cell>>

NextCoerce == CoerceCell

SpecCoerce == InitCoerce /\ [][NextCoerce]_vars

-----------------------------------------------------------------------------
(* Vocabulary of the properties *)

Finished == pc = "done"

\* the data rows of a sequence of lines, in order
RECURSIVE DataRows(_)
DataRows(lines) ==
    IF Len(lines) = 0 THEN <<>>
    ELSE (IF lines[1].blank THEN <<>> ELSE <<lines[1]>>) \o DataRows(Tail(lines))

\* the records of the rows that validate, in order
RECURSIVE ValidIssues(_)
ValidIssues(rows) ==
    IF Len(rows) = 0 THEN <<>>
    ELSE (IF SnykIssue(rows[1]).ok THEN <<SnykIssue(rows[1]).issue>> ELSE <<>>)
         \o ValidIssues(Tail(rows))

FailingCount(rows) == Cardinality({i \in DOMAIN rows : ~SnykIssue(rows[i]).ok})

RowDiagnostics == {k \in DOMAIN stderr : stderr[k].kind = "row"}

Consumed == SubSeq(file, 1, pos)

RECURSIVE SumOver(_, _)
\* sum of f[i] over the index set I
SumOver(f, I) ==
    IF I = {} THEN 0
    ELSE LET i == CHOOSE x \in I : TRUE IN f[i] + SumOver(f, I \ {i})

SeqToSet(q) == {q[i] : i \in DOMAIN q}

\* the set of (cve, cwe) pairs of a record
PairSet(issue) == SeqToSet(CveList(issue)) \X SeqToSet(CweList(issue))

CountOf(d, k) == IF k \in DOMAIN d THEN d[k] ELSE 0

-----------------------------------------------------------------------------
(* C3 *)

\* C3: read_csv_to_models never aborts on a failing row: the issues collected
\* from the lines consumed so far are exactly the records of the data rows that
\* validate, in input order, each failing row has produced exactly one
\* diagnostic, and the report counts only the validated rows.
C3_SkipsFailingRows ==
    pc \in {"loop", "generate", "done"} =>
        /\ issues = ValidIssues(DataRows(Consumed))
        /\ Cardinality(RowDiagnostics) = FailingCount(DataRows(Consumed))
        /\ pc # "loop" => pos = Len(file)
        /\ Finished => data.total_issues = Len(ValidIssues(DataRows(file)))

\* a finished run in which a valid row follows a failing row and is in the result
C3_Witness ==
    /\ Finished
    /\ \E i, j \in DOMAIN file :
          /\ i < j
          /\ ~file[i].blank /\ ~SnykIssue(file[i]).ok
          /\ ~file[j].blank /\ SnykIssue(file[j]).ok
    /\ Len(issues) >= 1
    /\ Cardinality(RowDiagnostics) >= 1

-----------------------------------------------------------------------------
(* C1 *)

GroupKey(g) ==
    IF group_by = "project" THEN <<g.project_name, g.project_url>>
    ELSE <<g.cve, g.cwe>>

RECURSIVE KeysInInputOrder(_)
\* the group keys in the order the input records present them
KeysInInputOrder(iss) ==
    IF Len(iss) = 0 THEN <<>>
    ELSE (IF group_by = "project"
          THEN <<<<iss[1].project_name, iss[1].project_url>>>>
          ELSE PairsOf(CveList(iss[1]), CweList(iss[1])))
         \o KeysInInputOrder(Tail(iss))

FirstSeen(key) ==
    LET ks == KeysInInputOrder(issues)
    IN  CHOOSE i \in DOMAIN ks : ks[i] = key /\ \A j \in 1..(i - 1) : ks[j] # key

\* C1: for both strategies the groups are ordered by non-increasing
\* total_issues, and groups with equal total_issues are in the order in which
\* their keys were first encountered in the input.
C1_SortedStable ==
    Finished =>
        \A i, j \in DOMAIN data.groups :
            i < j =>
                \/ data.groups[i].total_issues > data.groups[j].total_issues
                \/ /\ data.groups[i].total_issues = data.groups[j].total_issues
                   /\ FirstSeen(GroupKey(data.groups[i])) < FirstSeen(GroupKey(data.groups[j]))

\* a report where the sort moved a later-seen larger group to the front and
\* where two groups tie
C1_Witness ==
    /\ Finished
    /\ \E i, j \in DOMAIN data.groups :
          /\ i < j
          /\ data.groups[i].total_issues > data.groups[j].total_issues
          /\ FirstSeen(GroupKey(data.groups[i])) > FirstSeen(GroupKey(data.groups[j]))
    /\ \E i, j \in DOMAIN data.groups :
          i # j /\ data.groups[i].total_issues = data.groups[j].total_issues

-----------------------------------------------------------------------------
(* C2 *)

\* the records that contribute to the group of a (cve, cwe) pair
Members(key) == {r \in DOMAIN issues : key \in PairSet(issues[r])}

\* C2: in the CVE-CWE strategy the groups are exactly the pairs of the
\* records' Cartesian products, and every record raises total_issues, its
\* severity's count and (iff "Fixable") fixable_count of each of its pairs'
\* groups by exactly one.
C2_OncePerPair ==
    (Finished /\ group_by = "cve-cwe") =>
        /\ {GroupKey(data.groups[i]) : i \in DOMAIN data.groups}
              = UNION {PairSet(issues[r]) : r \in DOMAIN issues}
        /\ \A i \in DOMAIN data.groups :
              LET g == data.groups[i]
                  m == Members(GroupKey(g))
              IN  /\ g.total_issues = Cardinality(m)
                  /\ g.fixable_count =
                        Cardinality({r \in m : issues[r].computed_fixability = "Fixable"})
                  /\ \A r \in m :
                        CountOf(g.severity_counts, issues[r].issue_severity) =
                            Cardinality({q \in m : issues[q].issue_severity
                                                      = issues[r].issue_severity})

-----------------------------------------------------------------------------
(* C4 *)

\* C4: for either strategy the global fixable_count is the number of records
\* whose fixability is exactly "Fixable", each record counted once.
C4_GlobalFixable ==
    Finished =>
        data.fixable_count =
            Cardinality({r \in DOMAIN issues : issues[r].computed_fixability = "Fixable"})

\* a report over "Fixable", "fixable" and "Partially Fixable" records, one of
\* them in several groups
C4_Witness ==
    /\ Finished
    /\ data.fixable_count = 1
    /\ {issues[r].computed_fixability : r \in DOMAIN issues}
          = {"Fixable", "fixable", "Partially Fixable"}
    /\ \E r \in DOMAIN issues : Len(issues[r].cve) >= 2
    /\ data.total_groups > data.total_issues

-----------------------------------------------------------------------------
(* C6 *)

\* C6: when the input path does not exist main exits with status 1 after
\* printing an error, and nothing has been written: no directory created, no
\* CSV read started, no report written, with or without -o.
C6_NotFoundWritesNothing ==
    ~csv_exists =>
        /\ pc \in {"start", "exit"}
        /\ fs = {}
        /\ stdout = <<>>
        /\ pos = 0 /\ issues = <<>> /\ data = NoData
        /\ pc = "exit" =>
              /\ exit_code = 1
              /\ stderr = <<[kind |-> "not_found", row_num |-> 0]>>

\* main has exited on a missing input given an explicit output path
C6_Witness ==
    /\ pc = "exit"
    /\ ~csv_exists
    /\ output_file = "custom/report.html"
    /\ exit_code = 1

-----------------------------------------------------------------------------
(* C7 *)

\* C7: the strategy selector is applied consistently through one run: default
\* output path, group keys, template and echoed group_by all belong to the
\* selected strategy.
C7_StrategyConsistent ==
    Finished =>
        /\ data.group_by = group_by
        /\ IF group_by = "project"
           THEN /\ template_name = "report_project.html"
                /\ output_file = "" => output_path = "output/report_project.html"
                /\ \A i \in DOMAIN data.groups :
                      {"project_name", "project_url"} \subseteq DOMAIN data.groups[i]
                /\ {GroupKey(data.groups[i]) : i \in DOMAIN data.groups}
                      = {<<issues[r].project_name, issues[r].project_url>> :
                            r \in DOMAIN issues}
           ELSE /\ template_name = "report_cve_cwe.html"
                /\ output_file = "" => output_path = "output/report_cve_cwe.html"
                /\ \A i \in DOMAIN data.groups :
                      {"cve", "cwe"} \subseteq DOMAIN data.groups[i]
                /\ {GroupKey(data.groups[i]) : i \in DOMAIN data.groups}
                      = UNION {PairSet(issues[r]) : r \in DOMAIN issues}
        /\ output_path \in fs

\* a project run to the default path with several groups
C7_Witness ==
    /\ Finished
    /\ group_by = "project"
    /\ output_file = ""
    /\ data.total_groups >= 2
    /\ "output/report_project.html" \in fs

-----------------------------------------------------------------------------
(* C8 *)

\* C8: in the CVE-CWE strategy each group's projects list holds every distinct
\* (project name, project URL) pair of the group's member records, also when
\* two members share a name under different URLs, sorted by project name.
C8_AllProjectPairs ==
    (Finished /\ group_by = "cve-cwe") =>
        \A i \in DOMAIN data.groups :
            LET g == data.groups[i]
            IN  /\ {<<g.projects[k].name, g.projects[k].url>> : k \in DOMAIN g.projects}
                      = {<<issues[r].project_name, issues[r].project_url>> :
                            r \in Members(GroupKey(g))}
                /\ \A k, l \in DOMAIN g.projects :
                      k < l => Rank(g.projects[k].name) <= Rank(g.projects[l].name)

-----------------------------------------------------------------------------
(* C9 *)

\* positions in the file of the failing data rows consumed so far, in order
FailingPositions ==
    LET F == {j \in 1..pos : ~file[j].blank /\ ~SnykIssue(file[j]).ok}
    IN  [k \in 1..Cardinality(F) |->
            CHOOSE j \in F : Cardinality({m \in F : m < j}) = k - 1]

RowDiagnosticSeq == SelectSeq(stderr, LAMBDA d : d.kind = "row")

\* C9: the diagnostic of a failing row names its row number in the file, the
\* header being row 1 and the first line after it row 2, whatever lines
\* (valid, failing or blank) precede it.
C9_RowNumberIsFileRow ==
    pc \in {"loop", "generate", "done"} =>
        \A k \in DOMAIN RowDiagnosticSeq :
            /\ k \in DOMAIN FailingPositions
            /\ RowDiagnosticSeq[k].row_num = FailingPositions[k] + 1

-----------------------------------------------------------------------------
(* C10 *)

GroupIndexes == DOMAIN data.groups

\* C10: in the project strategy the groups partition the records: the groups'
\* total_issues, fixable_count and per-severity counts sum to the global ones.
C10_ProjectPartition ==
    (Finished /\ group_by = "project") =>
        /\ SumOver([i \in GroupIndexes |-> data.groups[i].total_issues], GroupIndexes)
              = data.total_issues
        /\ SumOver([i \in GroupIndexes |-> data.groups[i].fixable_count], GroupIndexes)
              = data.fixable_count
        /\ \A i \in GroupIndexes :
              DOMAIN data.groups[i].severity_counts \subseteq DOMAIN data.severity_counts
        /\ \A sev \in DOMAIN data.severity_counts :
              SumOver([i \in GroupIndexes |->
                          CountOf(data.groups[i].severity_counts, sev)], GroupIndexes)
                  = data.severity_counts[sev]
        /\ \A r \in DOMAIN issues :
              Cardinality({i \in GroupIndexes :
                  GroupKey(data.groups[i])
                      = <<issues[r].project_name, issues[r].project_url>>}) = 1

\* a project report with several groups over records that have several CVEs
\* and CWEs
C10_Witness ==
    /\ Finished
    /\ group_by = "project"
    /\ data.total_groups >= 2
    /\ \E r \in DOMAIN issues : Len(issues[r].cve) >= 2 /\ Len(issues[r].cwe) >= 2
    /\ data.fixable_count >= 1
    /\ Cardinality(DOMAIN data.severity_counts) >= 2

-----------------------------------------------------------------------------
(* C5 *)

\* the lists of strings whose JSON text fits a cell of the model
StringLists == UNION {[1..n -> {"A", "B"}] : n \in 0..MaxCellLen}

\* C5: for every text of a list-valued cell the coercion never fails the
\* record: the JSON text of a list of strings yields that list, and any other
\* text yields the empty list.
C5_CoercionNeverFails ==
    (coerced.done /\ cell.type = "str") =>
        /\ coerced.ok
        /\ IF \E l \in StringLists : cell.text = json_dumps(l)
           THEN coerced.list = CHOOSE l \in StringLists : cell.text = json_dumps(l)
           ELSE coerced.list = <<>>

====
